---- MODULE Spec2Model ----
(***************************************************************************)
(* The initialization / shutdown lifecycle of the Optic (ObserveX) Python  *)
(* SDK: configuration resolution (optic/config.py), the lifecycle          *)
(* controller (optic/_core.py, observex/_core.py), auto-instrumentation    *)
(* discovery (observex/instruments.py) and the host metrics sampler        *)
(* (observex/system_metrics.py).                                           *)
(*                                                                         *)
(* Python values that may be absent are modelled as sequences of length    *)
(* zero or one: <<>> is None (or an unset environment variable), <<v>> is  *)
(* the value v.                                                            *)
(***************************************************************************)
EXTENDS Integers, Sequences, FiniteSets, TLC

VARIABLES
    env,                \* os.environ: variable name -> <<>> (unset) or <<value>>
    _initialized,       \* _core._initialized
    _tracer_provider,   \* _core._tracer_provider: 0 (None) or the id of a provider
    _meter_provider,    \* _core._meter_provider
    _logger_provider,   \* _core._logger_provider
    providers,          \* every provider object constructed so far, by id
    attempts,           \* number of init calls that got past validation
    hooks,              \* number of atexit registrations of shutdown
    root_handlers,      \* number of LoggingHandlers attached to the root logger
    succeeded,          \* the attempts (init calls) that ran to completion
    gauges,             \* observable gauges registered by start_system_metrics
    instrumented,       \* registry libraries whose adapter reports itself instrumented
    phase,              \* "running" or "exiting" (the interpreter runs the exit hooks)
    hooks_left,         \* exit hooks still to run while exiting
    last,               \* the last call: its arguments, the configuration it
                        \* resolved, the operations it performed, how it ended
    threads             \* per thread: the call in progress and its position

vars == <<env, _initialized, _tracer_provider, _meter_provider, _logger_provider,
          providers, attempts, succeeded, hooks, root_handlers, gauges, instrumented, phase,
          hooks_left, last, threads>>

(***************************************************************************)
(* Bounds of the model.                                                    *)
(***************************************************************************)
MaxAttempts == 2

MaxShutdowns == 2

\* The longest run of consecutive sampler cycles.
MaxCycles == 3

(***************************************************************************)
(* Python values.                                                          *)
(***************************************************************************)
None == <<>>

Some(v) == <<v>>

\* Python truthiness of an optional string: None and "" are falsy.
Truthy(v) == v # None /\ v[1] # ""

(***************************************************************************)
(* optic/config.py                                                         *)
(***************************************************************************)
EnvNames == {"OPTIC_API_KEY", "OTEL_API_KEY", "OPTIC_SERVICE_NAME", "OTEL_SERVICE_NAME",
             "OPTIC_ENDPOINT", "OTEL_EXPORTER_OTLP_ENDPOINT", "OPTIC_ENVIRONMENT",
             "OPTIC_SERVICE_VERSION"}

\* A variant of getenv that takes a variable set to "" for an unset one.
getenv_EmptyIsUnset(e, name, default) ==
    IF e[name] = None \/ e[name] = Some("") THEN default ELSE e[name][1]

\* os.getenv(name, default)
getenv(e, name, default) == IF e[name] = None THEN default ELSE e[name][1]

\* The dataclass defaults of OpticConfig.
OpticConfig ==
    [api_key |-> "", service_name |-> "", endpoint |-> "http://localhost:8080",
     environment |-> "local", service_version |-> "", auto_instrument |-> TRUE,
     enable_traces |-> TRUE, enable_metrics |-> TRUE, enable_logs |-> TRUE,
     enable_system_metrics |-> TRUE, system_metrics_interval_sec |-> 15,
     export_interval_ms |-> 10000, log_level |-> "INFO", excluded_urls |-> <<>>]

Fields == DOMAIN OpticConfig

\* cls(api_key=os.getenv(...), ...): the fields read from the environment.
EnvConfig(e) ==
    [OpticConfig EXCEPT
        !.api_key = getenv(e, "OPTIC_API_KEY", getenv(e, "OTEL_API_KEY", "")),
        !.service_name = getenv(e, "OPTIC_SERVICE_NAME", getenv(e, "OTEL_SERVICE_NAME", "")),
        !.endpoint = getenv(e, "OPTIC_ENDPOINT",
                            getenv(e, "OTEL_EXPORTER_OTLP_ENDPOINT", "http://localhost:8080")),
        !.environment = getenv(e, "OPTIC_ENVIRONMENT", "local"),
        !.service_version = getenv(e, "OPTIC_SERVICE_VERSION", "")]

\* A variant of ApplyOverrides that only fills the fields the environment
\* left at their default.
ApplyOverrides_FillOnly(c, overrides) ==
    [f \in DOMAIN c |-> IF f \in DOMAIN overrides /\ c[f] = OpticConfig[f]
                        THEN overrides[f] ELSE c[f]]

\* for key, value in overrides.items(): if hasattr(cfg, key): setattr(cfg, key, value)
ApplyOverrides(c, overrides) ==
    [f \in DOMAIN c |-> IF f \in DOMAIN overrides THEN overrides[f] ELSE c[f]]

\* OpticConfig.from_env(**overrides)
from_env(e, overrides) == ApplyOverrides(EnvConfig(e), overrides)

(***************************************************************************)
(* optic/_core.py: the arguments of init and the overrides built from them *)
(***************************************************************************)
\* A call init(api_key, service_name, endpoint, **kwargs).  The named
\* parameters are optional strings; kwargs maps each keyword given to an
\* optional value.
NoArgs == [api_key |-> Some(""), service_name |-> Some(""), endpoint |-> Some(""),
           kwargs |-> <<>>]

\* overrides = {k: v for k, v in kwargs.items() if v is not None}
KwOverrides(kwargs) ==
    [k \in {x \in DOMAIN kwargs : kwargs[x] # None} |-> kwargs[k][1]]

\* if api_key: overrides["api_key"] = api_key  (and service_name, endpoint)
NamedOverrides(call) ==
    [k \in {x \in {"api_key", "service_name", "endpoint"} : Truthy(call[x])} |-> call[k][1]]

Overrides(call) == NamedOverrides(call) @@ KwOverrides(call.kwargs)

\* A variant of Validate that forgets the service name.
Validate_CredentialOnly(c) == IF c.api_key = "" THEN "ValueError" ELSE ""

\* The value check of init: "" when the configuration is accepted.
Validate(c) ==
    IF c.api_key = "" THEN "ValueError"
    ELSE IF c.service_name = "" THEN "ValueError"
    ELSE ""

(***************************************************************************)
(* observex/instruments.py                                                 *)
(***************************************************************************)
\* The keys of the INSTRUMENTORS dict, in its (insertion) order.
INSTRUMENTORS ==
    <<"flask", "django", "fastapi", "requests", "urllib3", "sqlalchemy", "pymysql",
      "psycopg2", "redis", "celery", "httpx", "aiohttp", "kafka">>

\* What the runtime holds for one registry entry: whether the target library
\* and the adapter import, whether the adapter has an instrument attribute,
\* whether instrument() takes excluded_urls, and whether applying it raises.
Absent == [lib |-> FALSE, adapter |-> FALSE, has_instrument |-> TRUE,
           accepts_excluded |-> TRUE, raises |-> FALSE]

Installed == [Absent EXCEPT !.lib = TRUE, !.adapter = TRUE]

Libraries == {INSTRUMENTORS[i] : i \in 1..Len(INSTRUMENTORS)}

NoAdapters == [lib \in Libraries |-> Absent]

\* A variant of InstrumentEntry without the probe of the target library
\* (lines 39-42): the adapter is applied whenever it imports.
InstrumentEntry_NoLibraryProbe(lib, a, excluded_urls, ins) ==
    IF ~a.adapter THEN [ins |-> ins, log |-> << <<"unavailable", lib>> >>]
    ELSE IF lib \in ins THEN [ins |-> ins, log |-> << <<"already", lib>> >>]
    ELSE LET pass == excluded_urls # <<>> /\ a.has_instrument
             call == IF pass THEN <<"apply_excluded", lib>> ELSE <<"apply", lib>>
         IN  IF ~a.has_instrument
             THEN [ins |-> ins, log |-> << <<"failed", lib>> >>]
             ELSE IF a.raises \/ (pass /\ ~a.accepts_excluded)
             THEN [ins |-> ins, log |-> <<call, <<"failed", lib>> >>]
             ELSE [ins |-> ins \cup {lib}, log |-> <<call, <<"instrumented", lib>> >>]

\* A variant of InstrumentEntry without the test of
\* is_instrumented_by_opentelemetry (line 56).
InstrumentEntry_NoInstrumentedCheck(lib, a, excluded_urls, ins) ==
    IF ~a.lib THEN [ins |-> ins, log |-> <<>>]
    ELSE IF ~a.adapter THEN [ins |-> ins, log |-> << <<"unavailable", lib>> >>]
    ELSE LET pass == excluded_urls # <<>> /\ a.has_instrument
             call == IF pass THEN <<"apply_excluded", lib>> ELSE <<"apply", lib>>
         IN  IF ~a.has_instrument
             THEN [ins |-> ins, log |-> << <<"failed", lib>> >>]
             ELSE IF a.raises \/ (pass /\ ~a.accepts_excluded)
             THEN [ins |-> ins, log |-> <<call, <<"failed", lib>> >>]
             ELSE [ins |-> ins \cup {lib}, log |-> <<call, <<"instrumented", lib>> >>]

\* One entry of the loop of auto_instrument, from the instrumented set `ins`:
\* the new instrumented set and the events of the entry.
InstrumentEntry(lib, a, excluded_urls, ins) ==
    IF ~a.lib THEN [ins |-> ins, log |-> <<>>]
    ELSE IF ~a.adapter THEN [ins |-> ins, log |-> << <<"unavailable", lib>> >>]
    ELSE IF lib \in ins THEN [ins |-> ins, log |-> << <<"already", lib>> >>]
    ELSE LET pass == excluded_urls # <<>> /\ a.has_instrument
             call == IF pass THEN <<"apply_excluded", lib>> ELSE <<"apply", lib>>
         IN  IF ~a.has_instrument
             THEN [ins |-> ins, log |-> << <<"failed", lib>> >>]
             ELSE IF a.raises \/ (pass /\ ~a.accepts_excluded)
             THEN [ins |-> ins, log |-> <<call, <<"failed", lib>> >>]
             ELSE [ins |-> ins \cup {lib}, log |-> <<call, <<"instrumented", lib>> >>]

\* A variant of the loop without the try/except of lines 54-63: the exception
\* of a failing adapter leaves the loop.
RECURSIVE InstrumentFrom_NoExcept(_, _, _, _)
InstrumentFrom_NoExcept(i, adapters, excluded_urls, ins) ==
    IF i > Len(INSTRUMENTORS) THEN [ins |-> ins, raised |-> FALSE, log |-> <<>>]
    ELSE LET lib == INSTRUMENTORS[i]
             one == InstrumentEntry(lib, adapters[lib], excluded_urls, ins)
             rest == InstrumentFrom_NoExcept(i + 1, adapters, excluded_urls, one.ins)
         IN  IF one.log # <<>> /\ one.log[Len(one.log)] = <<"failed", lib>>
             THEN [ins |-> one.ins, raised |-> TRUE, log |-> one.log]
             ELSE [ins |-> rest.ins, raised |-> rest.raised, log |-> one.log \o rest.log]

RECURSIVE InstrumentFrom(_, _, _, _)
InstrumentFrom(i, adapters, excluded_urls, ins) ==
    IF i > Len(INSTRUMENTORS) THEN [ins |-> ins, raised |-> FALSE, log |-> <<>>]
    ELSE LET one == InstrumentEntry(INSTRUMENTORS[i], adapters[INSTRUMENTORS[i]],
                                    excluded_urls, ins)
             rest == InstrumentFrom(i + 1, adapters, excluded_urls, one.ins)
         IN  [ins |-> rest.ins, raised |-> rest.raised, log |-> one.log \o rest.log]

\* auto_instrument(excluded_urls): the loop over the registry, then the summary
\* line.  `raised` tells whether an exception leaves the function.
auto_instrument(adapters, excluded_urls, ins) ==
    InstrumentFrom(1, adapters, excluded_urls, ins)

(***************************************************************************)
(* observex/system_metrics.py                                              *)
(***************************************************************************)
\* A variant of start_system_metrics without the try/except ImportError of
\* lines 17-21: the failed import of psutil leaves the function.
start_system_metrics_NoProbe(psutil) ==
    IF psutil THEN [gauges |-> 6, raised |-> FALSE, log |-> << <<"sampler", "started">> >>]
    ELSE [gauges |-> 0, raised |-> TRUE, log |-> << <<"sampler", "raise">> >>]

\* start_system_metrics: without psutil nothing is registered; with it six
\* create_observable_gauge calls are made, three of them with a callback.
\* `raised` tells whether an exception leaves the function.
start_system_metrics(psutil) ==
    IF psutil THEN [gauges |-> 6, raised |-> FALSE, log |-> << <<"sampler", "started">> >>]
    ELSE [gauges |-> 0, raised |-> FALSE, log |-> << <<"sampler", "unavailable">> >>]

\* What psutil gives a callback in one cycle: None when the probe raises, the
\* percentage it returns otherwise.
Percents == {50}

Probes == {None} \cup {Some(p) : p \in Percents}

\* Observation(percent / 100.0), as the fraction <<percent, 100>>.
Observation(percent) == <<percent, 100>>

\* A variant of _cpu_callback without its try/except: the exception of the
\* probe leaves the callback.
_cpu_callback_NoExcept(probe) ==
    IF probe = None THEN [obs |-> <<>>, raised |-> TRUE]
    ELSE [obs |-> <<Observation(probe[1])>>, raised |-> FALSE]

\* The three callbacks: [Observation(value)] or, when the probe raises, [].
_cpu_callback(probe) ==
    IF probe = None THEN [obs |-> <<>>, raised |-> FALSE]
    ELSE [obs |-> <<Observation(probe[1])>>, raised |-> FALSE]

_memory_callback(probe) ==
    IF probe = None THEN [obs |-> <<>>, raised |-> FALSE]
    ELSE [obs |-> <<Observation(probe[1])>>, raised |-> FALSE]

_disk_callback(probe) ==
    IF probe = None THEN [obs |-> <<>>, raised |-> FALSE]
    ELSE [obs |-> <<Observation(probe[1])>>, raised |-> FALSE]

(***************************************************************************)
(* optic/_core.py, observex/_core.py: init                                 *)
(***************************************************************************)
\* The module globals of _core and what they own, as one record.
Globals ==
    [_initialized |-> _initialized, _tracer_provider |-> _tracer_provider,
     _meter_provider |-> _meter_provider, _logger_provider |-> _logger_provider,
     providers |-> providers, attempts |-> attempts, succeeded |-> succeeded,
     hooks |-> hooks, root_handlers |-> root_handlers, gauges |-> gauges,
     instrumented |-> instrumented]

Signals == <<"traces", "metrics", "logs">>

\* What the runtime does during one init call: where a construction step
\* raises, whether psutil imports, and the state of each registry entry.
NoWorld == [fail |-> <<"none", "">>, psutil |-> TRUE, adapters |-> NoAdapters]

\* The global that holds the provider of a signal.
Handle == [traces |-> "_tracer_provider", metrics |-> "_meter_provider",
           logs |-> "_logger_provider"]

\* Where the construction of a signal may raise: in the exporter or provider
\* constructor (before the global is assigned) or in attaching the processor
\* and registering the provider (after it).
NoFail == <<"none", "">>

FailPoints == {NoFail} \cup {<<sig, at>> : sig \in {"traces", "metrics", "logs"},
                                            at \in {"construct", "register"}}

\* A variant of BuildSignal that attaches the LoggingHandler only when the
\* root logger has none of an earlier init.
BuildSignal_HandlerOnce(sig, enabled, id, fail, b) ==
    IF b.raised \/ ~enabled THEN b
    ELSE IF fail = <<sig, "construct">>
    THEN [b EXCEPT !.raised = TRUE, !.log = @ \o << <<"raise", sig>> >>]
    ELSE LET made == [b.g EXCEPT ![Handle[sig]] = id,
                                 !.providers = @ @@ (<<sig, id>> :> 0)]
         IN  IF fail = <<sig, "register">>
             THEN [g |-> made, raised |-> TRUE,
                   log |-> b.log \o << <<"construct", sig>>, <<"raise", sig>> >>]
             ELSE IF sig = "logs"
             THEN [g |-> [made EXCEPT !.root_handlers = IF @ = 0 THEN 1 ELSE @],
                   raised |-> FALSE,
                   log |-> b.log \o << <<"construct", sig>>, <<"addHandler", sig>> >>]
             ELSE [g |-> made, raised |-> FALSE,
                   log |-> b.log \o << <<"construct", sig>>, <<"register", sig>> >>]

\* One of the three "if cfg.enable_<signal>:" blocks of init, run by attempt id.
\* b is the result so far: the globals, the events and whether an exception
\* is propagating.
BuildSignal(sig, enabled, id, fail, b) ==
    IF b.raised \/ ~enabled THEN b
    ELSE IF fail = <<sig, "construct">>
    THEN [b EXCEPT !.raised = TRUE, !.log = @ \o << <<"raise", sig>> >>]
    ELSE LET made == [b.g EXCEPT ![Handle[sig]] = id,
                                 !.providers = @ @@ (<<sig, id>> :> 0)]
         IN  IF fail = <<sig, "register">>
             THEN [g |-> made, raised |-> TRUE,
                   log |-> b.log \o << <<"construct", sig>>, <<"raise", sig>> >>]
             ELSE IF sig = "logs"
             THEN [g |-> [made EXCEPT !.root_handlers = @ + 1], raised |-> FALSE,
                   log |-> b.log \o << <<"construct", sig>>, <<"addHandler", sig>> >>]
             ELSE [g |-> made, raised |-> FALSE,
                   log |-> b.log \o << <<"construct", sig>>, <<"register", sig>> >>]

\* Lines 86-122: traces, then metrics, then logs.
BuildProviders(g, c, id, fail) ==
    LET b0 == [g |-> g, raised |-> FALSE, log |-> <<>>]
        b1 == BuildSignal("traces", c.enable_traces, id, fail, b0)
        b2 == BuildSignal("metrics", c.enable_metrics, id, fail, b1)
    IN  BuildSignal("logs", c.enable_logs, id, fail, b2)

\* A variant of MarkInitialized that registers shutdown with atexit only when
\* no hook is registered yet.
MarkInitialized_HookOnce(g, id) ==
    [g |-> [g EXCEPT !._initialized = TRUE, !.succeeded = @ \cup {id},
                     !.hooks = IF @ = 0 THEN 1 ELSE @],
     log |-> << <<"flag", "True">>, <<"atexit", "register">> >>]

\* Lines 132-133: the flag is set and shutdown is registered with atexit.
MarkInitialized(g, id) ==
    [g |-> [g EXCEPT !._initialized = TRUE, !.succeeded = @ \cup {id}, !.hooks = @ + 1],
     log |-> << <<"flag", "True">>, <<"atexit", "register">> >>]

\* A variant of StartSubsystems whose test of line 125 forgets the metrics
\* flag.
StartSubsystems_IgnoreMetricsFlag(g, c, id, w) ==
    LET sam == IF c.enable_system_metrics
               THEN start_system_metrics(w.psutil)
               ELSE [gauges |-> 0, raised |-> FALSE, log |-> <<>>]
        dis == IF sam.raised
               THEN [ins |-> g.instrumented, raised |-> FALSE, log |-> <<>>]
               ELSE IF c.auto_instrument
               THEN LET d == auto_instrument(w.adapters, c.excluded_urls, g.instrumented)
                    IN  [ins |-> d.ins, raised |-> d.raised,
                         log |-> << <<"discovery", "run">> >> \o d.log]
               ELSE [ins |-> g.instrumented, raised |-> FALSE, log |-> <<>>]
        started == [g EXCEPT !.gauges = @ + sam.gauges, !.instrumented = dis.ins]
    IN  [g |-> started, raised |-> sam.raised \/ dis.raised, log |-> sam.log \o dis.log]

\* Lines 124-130, after the providers were built without an exception.
StartSubsystems(g, c, id, w) ==
    LET sam == IF c.enable_system_metrics /\ c.enable_metrics
               THEN start_system_metrics(w.psutil)
               ELSE [gauges |-> 0, raised |-> FALSE, log |-> <<>>]
        dis == IF sam.raised
               THEN [ins |-> g.instrumented, raised |-> FALSE, log |-> <<>>]
               ELSE IF c.auto_instrument
               THEN LET d == auto_instrument(w.adapters, c.excluded_urls, g.instrumented)
                    IN  [ins |-> d.ins, raised |-> d.raised,
                         log |-> << <<"discovery", "run">> >> \o d.log]
               ELSE [ins |-> g.instrumented, raised |-> FALSE, log |-> <<>>]
        started == [g EXCEPT !.gauges = @ + sam.gauges, !.instrumented = dis.ins]
    IN  [g |-> started, raised |-> sam.raised \/ dis.raised, log |-> sam.log \o dis.log]

\* A variant of RunInit that sets the flag before the providers are built, so
\* that a failed construction leaves it set.
RunInit_FlagFirst(g, call, w) ==
    LET c == from_env(env, Overrides(call))
        id == g.attempts + 1
        b == BuildProviders([g EXCEPT !.attempts = id], c, id, w.fail)
        s == StartSubsystems(b.g, c, id, w)
        m == MarkInitialized(s.g, id)
    IN  IF Validate(c) # ""
        THEN [g |-> g, cfg |-> c, result |-> Validate(c), log |-> <<>>]
        ELSE IF b.raised
        THEN [g |-> [b.g EXCEPT !._initialized = TRUE], cfg |-> c, result |-> "Exception",
              log |-> b.log]
        ELSE IF s.raised
        THEN [g |-> s.g, cfg |-> c, result |-> "Exception", log |-> b.log \o s.log]
        ELSE [g |-> m.g, cfg |-> c, result |-> "returned", log |-> b.log \o s.log \o m.log]

\* init from line 55 on: the state was found uninitialized.
RunInit(g, call, w) ==
    LET c == from_env(env, Overrides(call))
        id == g.attempts + 1
        b == BuildProviders([g EXCEPT !.attempts = id], c, id, w.fail)
        s == StartSubsystems(b.g, c, id, w)
        m == MarkInitialized(s.g, id)
    IN  IF Validate(c) # ""
        THEN [g |-> g, cfg |-> c, result |-> Validate(c), log |-> <<>>]
        ELSE IF b.raised
        THEN [g |-> b.g, cfg |-> c, result |-> "Exception", log |-> b.log]
        ELSE IF s.raised
        THEN [g |-> s.g, cfg |-> c, result |-> "Exception", log |-> b.log \o s.log]
        ELSE [g |-> m.g, cfg |-> c, result |-> "returned", log |-> b.log \o s.log \o m.log]

\* A variant of InitBody without the "if _initialized: return" of line 52.
InitBody_NoCheck(g, call, w) == RunInit(g, call, w)

\* init(api_key, service_name, endpoint, **kwargs)
InitBody(g, call, w) ==
    IF g._initialized
    THEN [g |-> g, cfg |-> OpticConfig, result |-> "returned", log |-> <<>>]
    ELSE RunInit(g, call, w)

(***************************************************************************)
(* optic/_core.py, observex/_core.py: shutdown                             *)
(***************************************************************************)
\* "if _<x>_provider: _<x>_provider.shutdown()" for one signal; raiser is the
\* signal whose provider raises from shutdown() in this call ("none": none).
ShutdownSignal(sig, raiser, b) ==
    IF b.raised \/ b.g[Handle[sig]] = 0 THEN b
    ELSE LET id == <<sig, b.g[Handle[sig]]>>
             g2 == [b.g EXCEPT !.providers[id] = @ + 1]
         IN  [g |-> g2, raised |-> raiser = sig,
              log |-> b.log \o (IF raiser = sig
                                THEN << <<"shutdown", sig>>, <<"raise", sig>> >>
                                ELSE << <<"shutdown", sig>> >>)]

\* Lines 148-153: tracer, meter, logger.
ShutdownProviders(g, raiser) ==
    LET b0 == [g |-> g, raised |-> FALSE, log |-> <<>>]
        b1 == ShutdownSignal("traces", raiser, b0)
        b2 == ShutdownSignal("metrics", raiser, b1)
    IN  ShutdownSignal("logs", raiser, b2)

\* A variant of ShutdownBody that leaves the flag set (line 155 missing).
ShutdownBody_KeepFlag(g, raiser) ==
    IF ~g._initialized
    THEN [g |-> g, result |-> "returned", log |-> <<>>]
    ELSE LET b == ShutdownProviders(g, raiser)
         IN  [g |-> b.g, log |-> b.log,
              result |-> IF b.raised THEN "Exception" ELSE "returned"]

\* A variant of ShutdownBody that clears the flag also when a provider raised
\* (line 155 in a finally clause).
ShutdownBody_ClearOnRaise(g, raiser) ==
    IF ~g._initialized
    THEN [g |-> g, result |-> "returned", log |-> <<>>]
    ELSE LET b == ShutdownProviders(g, raiser)
         IN  [g |-> [b.g EXCEPT !._initialized = FALSE],
              result |-> IF b.raised THEN "Exception" ELSE "returned",
              log |-> b.log \o << <<"flag", "False">> >>]

NoRaiser == "none"

\* shutdown()
ShutdownBody(g, raiser) ==
    IF ~g._initialized
    THEN [g |-> g, result |-> "returned", log |-> <<>>]
    ELSE LET b == ShutdownProviders(g, raiser)
         IN  IF b.raised
             THEN [g |-> b.g, result |-> "Exception", log |-> b.log]
             ELSE [g |-> [b.g EXCEPT !._initialized = FALSE], result |-> "returned",
                   log |-> b.log \o << <<"flag", "False">> >>]

(***************************************************************************)
(* The calls as actions.                                                   *)
(***************************************************************************)
\* The globals of _core and everything they own.
gvars == <<_initialized, _tracer_provider, _meter_provider, _logger_provider, providers,
           attempts, succeeded, hooks, root_handlers, gauges, instrumented>>

\* The record of a call that took no arguments and did nothing.
Quiet == [op |-> "none", call |-> NoArgs, w |-> NoWorld, cfg |-> OpticConfig,
          result |-> "", log |-> <<>>, probe |-> None, obs |-> <<>>]

Commit(g) ==
    /\ _initialized' = g._initialized
    /\ _tracer_provider' = g._tracer_provider
    /\ _meter_provider' = g._meter_provider
    /\ _logger_provider' = g._logger_provider
    /\ providers' = g.providers
    /\ attempts' = g.attempts
    /\ succeeded' = g.succeeded
    /\ hooks' = g.hooks
    /\ root_handlers' = g.root_handlers
    /\ gauges' = g.gauges
    /\ instrumented' = g.instrumented

WithinBounds(g) ==
    /\ g.attempts <= MaxAttempts
    /\ \A id \in DOMAIN g.providers : g.providers[id] <= MaxShutdowns

init(call, w) ==
    /\ phase = "running"
    /\ LET r == InitBody(Globals, call, w)
       IN  /\ WithinBounds(r.g)
           /\ Commit(r.g)
           /\ last' = [Quiet EXCEPT !.op = "init", !.call = call, !.w = w, !.cfg = r.cfg,
                                     !.result = r.result, !.log = r.log]
    /\ UNCHANGED <<env, phase, hooks_left, threads>>

shutdown(raiser) ==
    /\ phase = "running"
    /\ LET r == ShutdownBody(Globals, raiser)
       IN  /\ WithinBounds(r.g)
           /\ Commit(r.g)
           /\ last' = [Quiet EXCEPT !.op = "shutdown", !.result = r.result, !.log = r.log]
    /\ UNCHANGED <<env, phase, hooks_left, threads>>

is_initialized ==
    /\ phase = "running"
    /\ last' = [Quiet EXCEPT !.op = "is_initialized",
                              !.result = IF _initialized THEN "True" ELSE "False"]
    /\ UNCHANGED <<env, _initialized, _tracer_provider, _meter_provider, _logger_provider,
                   providers, attempts, succeeded, hooks, root_handlers, gauges,
                   instrumented, phase, hooks_left, threads>>

\* The interpreter exits: the functions registered with atexit are run.
process_exit ==
    /\ phase = "running"
    /\ phase' = "exiting"
    /\ hooks_left' = hooks
    /\ last' = [Quiet EXCEPT !.op = "process_exit"]
    /\ UNCHANGED <<env, _initialized, _tracer_provider, _meter_provider, _logger_provider,
                   providers, attempts, succeeded, hooks, root_handlers, gauges,
                   instrumented, threads>>

\* One registered hook runs shutdown(); atexit reports an exception of a hook
\* and goes on to the next one.
exit_hook(raiser) ==
    /\ phase = "exiting"
    /\ hooks_left > 0
    /\ hooks_left' = hooks_left - 1
    /\ LET r == ShutdownBody(Globals, raiser)
       IN  /\ WithinBounds(r.g)
           /\ Commit(r.g)
           /\ last' = [Quiet EXCEPT !.op = "exit_hook", !.result = r.result, !.log = r.log]
    /\ UNCHANGED <<env, phase, threads>>

\* The meter provider runs one of the callbacks registered by
\* start_system_metrics (a cycle of its reader).  The record of the call keeps
\* the cycles of the run of consecutive callbacks it belongs to.
callback(name, probe) ==
    /\ phase = "running"
    /\ _initialized /\ _meter_provider # 0 /\ gauges > 0
    /\ LET r == IF name = "cpu" THEN _cpu_callback(probe)
                ELSE IF name = "memory" THEN _memory_callback(probe)
                ELSE _disk_callback(probe)
           before == IF last.op = "callback" THEN last.log ELSE <<>>
       IN  /\ Len(before) < MaxCycles
           /\ last' = [Quiet EXCEPT
                          !.op = "callback", !.probe = probe, !.obs = r.obs,
                          !.result = IF r.raised THEN "Exception" ELSE "returned",
                          !.log = before \o << <<name, IF probe = None THEN "raises" ELSE "ok">> >>]
    /\ UNCHANGED <<env, gvars, phase, hooks_left, threads>>

(***************************************************************************)
(* The lifecycle: any sequence of init, shutdown and is_initialized calls, *)
(* then the exit of the process.                                           *)
(***************************************************************************)
Threads == {"t1", "t2"}

Idle == [pc |-> "idle", op |-> "none", c |-> OpticConfig, id |-> 0]

Unset == [n \in EnvNames |-> None]

\* Environments of the lifecycle: nothing set, or the credential and the
\* service name set.
LifecycleEnvs ==
    {Unset,
     [Unset EXCEPT !["OPTIC_API_KEY"] = Some("ek"), !["OTEL_SERVICE_NAME"] = Some("es")]}

\* kwargs that switch off the flags of D.
FlagsOff(D) == [k \in D |-> Some(FALSE)]

LifecycleCalls ==
    {[api_key |-> Some(kn[1]), service_name |-> Some(kn[2]), endpoint |-> Some(""),
      kwargs |-> FlagsOff(D)] :
        kn \in {<<"", "">>, <<"k", "svc">>, <<"k", "">>},
        D \in SUBSET {"enable_traces", "enable_metrics", "enable_logs"}}

\* The lifecycle without faults: no constructor and no provider shutdown raises.
LifecycleWorlds ==
    {[fail |-> NoFail, psutil |-> TRUE,
      adapters |-> [NoAdapters EXCEPT !["flask"] = Installed]]}

\* The lifecycle with faults: any construction step and any provider shutdown
\* may raise.
FaultCalls ==
    {[api_key |-> Some("k"), service_name |-> Some("svc"), endpoint |-> Some(""),
      kwargs |-> FlagsOff(D)] : D \in {{}, {"enable_metrics"}}}

FaultWorlds ==
    {[fail |-> f, psutil |-> TRUE, adapters |-> NoAdapters] : f \in FailPoints}

Raisers == {"none", "traces", "metrics", "logs"}

TypeOK ==
    /\ _initialized \in BOOLEAN
    /\ attempts \in 0..MaxAttempts
    /\ _tracer_provider \in 0..attempts
    /\ _meter_provider \in 0..attempts
    /\ _logger_provider \in 0..attempts
    /\ succeeded \subseteq 1..attempts
    /\ phase \in {"running", "exiting"}
    /\ hooks_left \in 0..hooks

InitGlobals ==
    /\ _initialized = FALSE
    /\ _tracer_provider = 0
    /\ _meter_provider = 0
    /\ _logger_provider = 0
    /\ providers = <<>>
    /\ attempts = 0
    /\ succeeded = {}
    /\ hooks = 0
    /\ root_handlers = 0
    /\ gauges = 0
    /\ instrumented = {}
    /\ phase = "running"
    /\ hooks_left = 0
    /\ last = Quiet
    /\ threads = [t \in Threads |-> Idle]

Init ==
    /\ env \in LifecycleEnvs
    /\ InitGlobals

Next ==
    \/ \E call \in LifecycleCalls, w \in LifecycleWorlds : init(call, w)
    \/ shutdown(NoRaiser)
    \/ is_initialized
    \/ process_exit
    \/ exit_hook(NoRaiser)

Spec == Init /\ [][Next]_vars

InitFaults ==
    /\ env = Unset
    /\ InitGlobals

NextFaults ==
    \/ \E call \in FaultCalls, w \in FaultWorlds : init(call, w)
    \/ \E raiser \in Raisers : shutdown(raiser)
    \/ is_initialized
    \/ process_exit
    \/ \E raiser \in Raisers : exit_hook(raiser)

SpecFaults == InitFaults /\ [][NextFaults]_vars

(***************************************************************************)
(* Configuration resolution on its own: lines 55-73 of init, for any       *)
(* environment and any arguments.                                          *)
(***************************************************************************)
\* init up to the validation, called once in a fresh process: the
\* configuration resolved and the verdict.
resolve(call) ==
    /\ last.op = "none"
    /\ LET c == from_env(env, Overrides(call))
       IN  last' = [Quiet EXCEPT !.op = "resolve", !.call = call, !.cfg = c,
                                 !.result = Validate(c)]
    /\ UNCHANGED <<env, gvars, phase, hooks_left, threads>>

\* The values a keyword argument may be given: None or a value of its type.
KwValues(k) ==
    IF k \in {"auto_instrument", "enable_traces", "enable_metrics", "enable_logs",
              "enable_system_metrics"}
    THEN {None, Some(TRUE), Some(FALSE)}
    ELSE IF k = "system_metrics_interval_sec" THEN {None, Some(5)}
    ELSE IF k = "export_interval_ms" THEN {None, Some(500)}
    ELSE IF k = "excluded_urls" THEN {None, Some(<<>>), Some(<<"/health">>)}
    ELSE {None, Some(""), Some("kw")}

\* The keywords: every field that is not a named parameter, and one name that
\* is no field.
KwKeys == (Fields \ {"api_key", "service_name", "endpoint"}) \cup {"sampling_ratio"}

\* Calls with any named parameters and at most one keyword argument.
CfgCalls ==
    {[api_key |-> a, service_name |-> n, endpoint |-> e, kwargs |-> <<>>] :
        a \in {None, Some(""), Some("k")}, n \in {None, Some(""), Some("svc")},
        e \in {None, Some(""), Some("http://collector:4318")}}

\* Environments in which every variable that from_env reads is unset or set
\* to its own name.
CfgEnvs == {[n \in EnvNames |-> IF n \in S THEN Some(n) ELSE None] : S \in SUBSET EnvNames}

InitCfg ==
    /\ env \in CfgEnvs
    /\ InitGlobals

NextCfg ==
    \E call \in CfgCalls :
        \/ resolve(call)
        \/ \E k \in KwKeys : \E v \in KwValues(k) :
              resolve([call EXCEPT !.kwargs = (k :> v)])

SpecCfg == InitCfg /\ [][NextCfg]_vars

\* Variables of the process environment that from_env does not read.
OtherNames == {"OTEL_ENVIRONMENT", "OTEL_SERVICE_VERSION"}

\* Environments in which every variable is unset, set to "" or set to its
\* own name.
AllEnvs ==
    {[n \in EnvNames \cup OtherNames |-> IF n \in S THEN Some(n)
                                         ELSE IF n \in E THEN Some("") ELSE None] :
        S \in SUBSET (EnvNames \cup OtherNames), E \in SUBSET EnvNames}

InitEnv ==
    /\ env \in AllEnvs
    /\ InitGlobals

NextEnv == resolve(NoArgs) \/ resolve([NoArgs EXCEPT !.api_key = None])

SpecEnv == InitEnv /\ [][NextEnv]_vars

(***************************************************************************)
(* Threads: init, shutdown and is_initialized called from two threads.  A  *)
(* thread may be switched out between any two statements of _core, which   *)
(* takes no lock; each step below is one statement (or one block whose     *)
(* statements touch one provider).  No construction and no provider        *)
(* shutdown raises here.                                                    *)
(***************************************************************************)
ThreadCall == [api_key |-> Some("k"), service_name |-> Some("svc"), endpoint |-> Some(""),
               kwargs |-> <<>>]

Start(g) == [g |-> g, raised |-> FALSE, log |-> <<>>]

At(t, pc) == threads[t].pc = pc

Goto(t, pc) == threads' = [threads EXCEPT ![t].pc = pc]

Return(t) == threads' = [threads EXCEPT ![t] = Idle]

\* init, line 52: "if _initialized: return".
t_init_check(t) ==
    /\ At(t, "idle")
    /\ IF _initialized
       THEN /\ last' = [Quiet EXCEPT !.op = "init", !.result = "returned"]
            /\ UNCHANGED threads
       ELSE /\ threads' = [threads EXCEPT ![t].pc = "resolve", ![t].op = "init"]
            /\ UNCHANGED last
    /\ UNCHANGED <<env, gvars, phase, hooks_left>>

\* init, lines 55-84: resolve, validate, build the resource.
t_init_resolve(t) ==
    /\ At(t, "resolve")
    /\ attempts < MaxAttempts
    /\ LET c == from_env(env, Overrides(ThreadCall))
       IN  IF Validate(c) # ""
           THEN Return(t) /\ UNCHANGED gvars
           ELSE /\ threads' = [threads EXCEPT ![t].pc = "traces", ![t].c = c,
                                              ![t].id = attempts + 1]
                /\ Commit([Globals EXCEPT !.attempts = @ + 1])
    /\ UNCHANGED <<env, phase, hooks_left, last>>

\* init, lines 87-94, 97-106 and 109-122: the block of one signal.
t_init_build(t, sig, next) ==
    /\ At(t, sig)
    /\ Commit(BuildSignal(sig, threads[t].c[IF sig = "traces" THEN "enable_traces"
                                            ELSE IF sig = "metrics" THEN "enable_metrics"
                                            ELSE "enable_logs"],
                          threads[t].id, NoFail, Start(Globals)).g)
    /\ Goto(t, next)
    /\ UNCHANGED <<env, phase, hooks_left, last>>

\* init, lines 125-130: the sampler and discovery.
t_init_subsystems(t) ==
    /\ At(t, "subsystems")
    /\ Commit(StartSubsystems(Globals, threads[t].c, threads[t].id, NoWorld).g)
    /\ Goto(t, "flag")
    /\ UNCHANGED <<env, phase, hooks_left, last>>

\* init, lines 132-133.
t_init_flag(t) ==
    /\ At(t, "flag")
    /\ Commit(MarkInitialized(Globals, threads[t].id).g)
    /\ Return(t)
    /\ UNCHANGED <<env, phase, hooks_left, last>>

\* shutdown, line 145: "if not _initialized: return".
t_shutdown_check(t) ==
    /\ At(t, "idle")
    /\ IF _initialized
       THEN /\ threads' = [threads EXCEPT ![t].pc = "stop_traces", ![t].op = "shutdown"]
            /\ UNCHANGED last
       ELSE /\ last' = [Quiet EXCEPT !.op = "shutdown", !.result = "returned"]
            /\ UNCHANGED threads
    /\ UNCHANGED <<env, gvars, phase, hooks_left>>

\* shutdown, lines 148-149, 150-151 and 152-153: one provider.
t_shutdown_provider(t, sig, pc, next) ==
    /\ At(t, pc)
    /\ LET g == ShutdownSignal(sig, NoRaiser, Start(Globals)).g
       IN  WithinBounds(g) /\ Commit(g)
    /\ Goto(t, next)
    /\ UNCHANGED <<env, phase, hooks_left, last>>

\* shutdown, line 155.
t_shutdown_flag(t) ==
    /\ At(t, "clear")
    /\ Commit([Globals EXCEPT !._initialized = FALSE])
    /\ Return(t)
    /\ UNCHANGED <<env, phase, hooks_left, last>>

\* is_initialized(), line 31.
t_is_initialized(t) ==
    /\ At(t, "idle")
    /\ last' = [Quiet EXCEPT !.op = "is_initialized",
                              !.result = IF _initialized THEN "True" ELSE "False"]
    /\ UNCHANGED <<env, gvars, phase, hooks_left, threads>>

InitConc ==
    /\ env = Unset
    /\ InitGlobals

NextConc ==
    \E t \in Threads :
        \/ t_init_check(t)
        \/ t_init_resolve(t)
        \/ t_init_build(t, "traces", "metrics")
        \/ t_init_build(t, "metrics", "logs")
        \/ t_init_build(t, "logs", "subsystems")
        \/ t_init_subsystems(t)
        \/ t_init_flag(t)
        \/ t_shutdown_check(t)
        \/ t_shutdown_provider(t, "traces", "stop_traces", "stop_metrics")
        \/ t_shutdown_provider(t, "metrics", "stop_metrics", "stop_logs")
        \/ t_shutdown_provider(t, "logs", "stop_logs", "clear")
        \/ t_shutdown_flag(t)
        \/ t_is_initialized(t)

SpecConc == InitConc /\ [][NextConc]_vars

(***************************************************************************)
(* Discovery: init calls in runtimes where the first two entries of the    *)
(* registry are in any state, the others absent, and in a runtime where    *)
(* every library is installed without its adapter.                         *)
(***************************************************************************)
Probed == {"flask", "django"}

AdapterKinds ==
    {Absent,
     [Absent EXCEPT !.lib = TRUE],
     [Absent EXCEPT !.adapter = TRUE],
     Installed,
     [Installed EXCEPT !.raises = TRUE],
     [Installed EXCEPT !.accepts_excluded = FALSE],
     [Installed EXCEPT !.has_instrument = FALSE]}

\* A runtime in which every library of the registry is installed and no
\* adapter is.
NoAdapterInstalled ==
    [fail |-> NoFail, psutil |-> TRUE,
     adapters |-> [lib \in Libraries |-> [Absent EXCEPT !.lib = TRUE]]]

DiscWorlds ==
    {[fail |-> NoFail, psutil |-> TRUE,
      adapters |-> [lib \in Libraries |-> IF lib \in Probed THEN f[lib] ELSE Absent]] :
        f \in [Probed -> AdapterKinds]} \cup {NoAdapterInstalled}

DiscCalls ==
    {[api_key |-> Some("k"), service_name |-> Some("svc"), endpoint |-> Some(""),
      kwargs |-> kw] :
        kw \in {<<>>, [excluded_urls |-> Some(<<"/health">>)],
                [auto_instrument |-> Some(FALSE)]}}

InitDisc ==
    /\ env = Unset
    /\ InitGlobals

NextDisc ==
    \/ \E call \in DiscCalls, w \in DiscWorlds : init(call, w)
    \/ shutdown(NoRaiser)

SpecDisc == InitDisc /\ [][NextDisc]_vars

(***************************************************************************)
(* The sampler: init calls with the metrics, system-metrics and            *)
(* auto-instrument flags on or off, in runtimes with and without psutil,   *)
(* shutdown, and the cycles in which the meter provider runs the callbacks.*)
(***************************************************************************)
SamplerCalls ==
    {[api_key |-> Some("k"), service_name |-> Some("svc"), endpoint |-> Some(""),
      kwargs |-> FlagsOff(D)] :
        D \in SUBSET {"enable_metrics", "enable_system_metrics", "auto_instrument"}}

SamplerWorlds ==
    {[fail |-> NoFail, psutil |-> p,
      adapters |-> [NoAdapters EXCEPT !["flask"] = Installed]] : p \in BOOLEAN}

CallbackNames == {"cpu", "memory", "disk"}

InitSampler ==
    /\ env = Unset
    /\ InitGlobals

NextSampler ==
    \/ \E call \in SamplerCalls, w \in SamplerWorlds : init(call, w)
    \/ shutdown(NoRaiser)
    \/ \E name \in CallbackNames, probe \in Probes : callback(name, probe)

SpecSampler == InitSampler /\ [][NextSampler]_vars

(***************************************************************************)
(* The root logger: init calls with logs on or off, in runtimes where the  *)
(* construction of the meter or the logger provider may raise, shutdown    *)
(* and the exit of the process.                                            *)
(***************************************************************************)
LogsCalls ==
    {[api_key |-> Some(kn[1]), service_name |-> Some(kn[2]), endpoint |-> Some(""),
      kwargs |-> FlagsOff(D)] :
        kn \in {<<"k", "svc">>, <<"k", "">>}, D \in {{}, {"enable_logs"}}}

LogsWorlds ==
    {[fail |-> f, psutil |-> TRUE, adapters |-> NoAdapters] :
        f \in {NoFail, <<"metrics", "construct">>, <<"logs", "construct">>,
                <<"logs", "register">>}}

InitLogs ==
    /\ env = Unset
    /\ InitGlobals

NextLogs ==
    \/ \E call \in LogsCalls, w \in LogsWorlds : init(call, w)
    \/ shutdown(NoRaiser)
    \/ process_exit
    \/ exit_hook(NoRaiser)

SpecLogs == InitLogs /\ [][NextLogs]_vars

(***************************************************************************)
(* Properties of the lifecycle.                                            *)
(***************************************************************************)
Events(log) == {log[i] : i \in 1..Len(log)}

\* C1: an init call made while the state is INITIALIZED returns without an
\* error and performs no operation at all (no construction, no sampler start,
\* no discovery, no exit hook), whatever its arguments, and leaves the state
\* of the process as it was.
C1_InitWhenInitializedIsNoOp ==
    [][(_initialized /\ last'.op = "init")
        => (last'.result = "returned" /\ last'.log = <<>> /\ UNCHANGED gvars)]_vars

\* C1 happens: init was called in state INITIALIZED with arguments that fail
\* validation, and returned.
C1_Witness ==
    /\ _initialized
    /\ last.op = "init"
    /\ last.result = "returned"
    /\ last.log = <<>>
    /\ Validate(from_env(env, Overrides(last.call))) = "ValueError"

\* The attempt that made the state INITIALIZED.
Initializer == CHOOSE a \in succeeded : \A b \in succeeded : b <= a

\* C3: the lifecycle record is either fully uninitialized (flag false, no
\* handle owned) or fully initialized (flag true, and the handles owned are
\* exactly the providers that the initializing call constructed).
C3_RecordConsistent ==
    IF _initialized
    THEN \A sig \in {"traces", "metrics", "logs"} :
            Globals[Handle[sig]] =
                IF <<sig, Initializer>> \in DOMAIN providers THEN Initializer ELSE 0
    ELSE _tracer_provider = 0 /\ _meter_provider = 0 /\ _logger_provider = 0

\* C4: a provider constructed by a successful init is never shut down twice,
\* and has been shut down once when the exit hooks have run.
C4_ShutdownExactlyOnce ==
    \A id \in DOMAIN providers :
        id[2] \in succeeded =>
            /\ providers[id] <= 1
            /\ (phase = "exiting" /\ hooks_left = 0) => providers[id] = 1

\* C6: an init call in state UNINITIALIZED whose resolved credential or
\* service name is empty raises a validation error and performs no operation;
\* the state of the process stays as it was, UNINITIALIZED.
C6_ValidationBeforeSideEffects ==
    [][(~_initialized /\ last'.op = "init"
        /\ (last'.cfg.api_key = "" \/ last'.cfg.service_name = ""))
        => (last'.result = "ValueError" /\ last'.log = <<>> /\ UNCHANGED gvars)]_vars

\* C6 happens: a call with a credential and without a service name was
\* rejected after an earlier init and shutdown.
C6_Witness ==
    /\ last.op = "init"
    /\ last.result = "ValueError"
    /\ last.cfg.api_key # ""
    /\ last.cfg.service_name = ""
    /\ attempts > 0

\* C5: when the shutdown of one owned provider raises, shutdown is still
\* attempted on every other owned provider.
C5_AllProvidersAttempted ==
    (last.op \in {"shutdown", "exit_hook"} /\ last.result = "Exception")
        => \A sig \in {"traces", "metrics", "logs"} :
              Globals[Handle[sig]] # 0 => <<"shutdown", sig>> \in Events(last.log)

\* C8: shutdown in state UNINITIALIZED does nothing; a shutdown that returns
\* leaves the state UNINITIALIZED, which is what is_initialized() then
\* reports; and an init that returns from there has initialized again.
C8_ShutdownThenUninitialized ==
    [][/\ (~_initialized /\ last'.op = "shutdown")
            => (last'.result = "returned" /\ last'.log = <<>> /\ UNCHANGED gvars)
       /\ (last'.op = "shutdown" /\ last'.result = "returned") => ~_initialized'
       /\ (~_initialized /\ last'.op = "is_initialized") => last'.result = "False"
       /\ (~_initialized /\ last'.op = "init" /\ last'.result = "returned")
            => _initialized']_vars

\* C8 happens: after a second successful init and a shutdown,
\* is_initialized() returned False.
C8_Witness ==
    /\ last.op = "is_initialized"
    /\ last.result = "False"
    /\ Cardinality(succeeded) = 2
    /\ \E id \in DOMAIN providers : id[2] = 2 /\ providers[id] > 0

\* An adapter that imports and whose instrument() succeeds with the
\* arguments that configuration c makes discovery pass.
Sound(a, c) ==
    /\ a.lib /\ a.adapter /\ a.has_instrument /\ ~a.raises
    /\ a.accepts_excluded \/ c.excluded_urls = <<>>

\* C7: when the adapter of a registry entry raises while it is applied,
\* discovery goes on with the remaining entries (every present entry is
\* processed and every sound adapter ends up instrumented), and the init
\* call returns with the state INITIALIZED.
C7_AdapterFailureContained ==
    (last.op = "init" /\ \E lib \in Libraries : <<"failed", lib>> \in Events(last.log))
        => /\ last.result = "returned"
           /\ _initialized
           /\ \A lib \in Libraries :
                /\ last.w.adapters[lib].lib => \E e \in Events(last.log) : e[2] = lib
                /\ Sound(last.w.adapters[lib], last.cfg) => lib \in instrumented

\* C7 happens: the adapter of the first entry raised and the adapter of the
\* second entry was applied after it, in an init that completed.
C7_Witness ==
    /\ last.op = "init"
    /\ last.w.adapters["flask"].raises
    /\ \E i, j \in 1..Len(last.log) :
          /\ i < j
          /\ last.log[i] = <<"failed", "flask">>
          /\ last.log[j] = <<"instrumented", "django">>
    /\ _initialized

\* The threads that are inside init, past the check of line 52.
Initializing == {t \in Threads : threads[t].op = "init"}

\* The threads inside init that have run the traces block.
Constructing == {t \in Initializing : threads[t].pc \in {"metrics", "logs", "subsystems", "flag"}}

\* C2: under concurrent calls, two init calls never both pass the
\* initialized check and both construct providers.
C2_SingleConstruction == Cardinality(Constructing) <= 1

(***************************************************************************)
(* Properties of configuration resolution.                                 *)
(***************************************************************************)
\* The override the caller gave for field f, if any: a named parameter that
\* is not empty, or a keyword argument that is not None.
Given(call, f) ==
    IF f \in {"api_key", "service_name", "endpoint"}
    THEN Truthy(call[f])
    ELSE f \in DOMAIN call.kwargs /\ call.kwargs[f] # None

GivenValue(call, f) ==
    IF f \in {"api_key", "service_name", "endpoint"} THEN call[f][1] ELSE call.kwargs[f][1]

\* The environment variables of a field, the SDK-specific one first.
SdkVar == [api_key |-> "OPTIC_API_KEY", service_name |-> "OPTIC_SERVICE_NAME",
           endpoint |-> "OPTIC_ENDPOINT", environment |-> "OPTIC_ENVIRONMENT",
           service_version |-> "OPTIC_SERVICE_VERSION"]

GenericVar == [api_key |-> "OTEL_API_KEY", service_name |-> "OTEL_SERVICE_NAME",
               endpoint |-> "OTEL_EXPORTER_OTLP_ENDPOINT"]

IsSet(n) == env[n] # None

\* The value the environment gives field f: <<>> when no variable of the
\* field is set.
FromEnvironment(f) ==
    IF f \notin DOMAIN SdkVar THEN None
    ELSE IF IsSet(SdkVar[f]) THEN env[SdkVar[f]]
    ELSE IF f \in DOMAIN GenericVar /\ IsSet(GenericVar[f]) THEN env[GenericVar[f]]
    ELSE None

\* The defaults the specification states, and "" or empty for the rest.
StatedDefaults ==
    [api_key |-> "", service_name |-> "", endpoint |-> "http://localhost:8080",
     environment |-> "local", service_version |-> "", auto_instrument |-> TRUE,
     enable_traces |-> TRUE, enable_metrics |-> TRUE, enable_logs |-> TRUE,
     enable_system_metrics |-> TRUE, system_metrics_interval_sec |-> 15,
     export_interval_ms |-> 10000, log_level |-> "INFO", excluded_urls |-> <<>>]

\* C9: every field of the resolved configuration is, independently of the
\* others, the caller's override when one is given, otherwise the value of
\* the field's environment variable when one is set, otherwise the default.
C9_OverrideThenEnvThenDefault ==
    last.op = "resolve" =>
        \A f \in Fields :
            last.cfg[f] = IF Given(last.call, f) THEN GivenValue(last.call, f)
                          ELSE IF FromEnvironment(f) # None THEN FromEnvironment(f)[1]
                          ELSE StatedDefaults[f]

\* C9 happens: one call in which the credential comes from an override that
\* beats a set variable, the environment from a variable, the log level from
\* a keyword override and the endpoint from the default.
C9_Witness ==
    /\ last.op = "resolve"
    /\ Given(last.call, "api_key") /\ IsSet("OPTIC_API_KEY")
    /\ ~Given(last.call, "environment") /\ IsSet("OPTIC_ENVIRONMENT")
    /\ Given(last.call, "log_level")
    /\ ~Given(last.call, "endpoint") /\ FromEnvironment("endpoint") = None
    /\ last.cfg.endpoint = "http://localhost:8080"

\* The generic fallback variable of each of the five fields; from_env reads
\* none for the deployment environment and the service version.
FallbackVar == [api_key |-> "OTEL_API_KEY", service_name |-> "OTEL_SERVICE_NAME",
                endpoint |-> "OTEL_EXPORTER_OTLP_ENDPOINT",
                environment |-> "OTEL_ENVIRONMENT",
                service_version |-> "OTEL_SERVICE_VERSION"]

\* C10 as stated: with no override, each of the five fields is the value of
\* its SDK-specific variable when set, otherwise the value of its generic
\* fallback variable when set, otherwise the default.
C10_FallbackForAllFive ==
    last.op = "resolve" =>
        \A f \in DOMAIN SdkVar :
            last.cfg[f] = IF IsSet(SdkVar[f]) THEN env[SdkVar[f]][1]
                          ELSE IF IsSet(FallbackVar[f]) THEN env[FallbackVar[f]][1]
                          ELSE StatedDefaults[f]

\* C10 amended: that order holds for the credential, the service name and
\* the endpoint, for variables unset, set and set to ""; the deployment
\* environment and the service version have no generic fallback: they are
\* the value of the SDK-specific variable when set, otherwise the default.
C10_FallbackForThree ==
    last.op = "resolve" =>
        /\ \A f \in DOMAIN GenericVar :
              last.cfg[f] = IF IsSet(SdkVar[f]) THEN env[SdkVar[f]][1]
                            ELSE IF IsSet(GenericVar[f]) THEN env[GenericVar[f]][1]
                            ELSE StatedDefaults[f]
        /\ \A f \in {"environment", "service_version"} :
              last.cfg[f] = IF IsSet(SdkVar[f]) THEN env[SdkVar[f]][1]
                            ELSE StatedDefaults[f]

\* C10 happens: the SDK-specific credential variable is set to "" while the
\* generic one has a value, the endpoint comes from the generic variable, and
\* a generic environment variable is set while the SDK-specific one is not.
C10_Witness ==
    /\ last.op = "resolve"
    /\ env["OPTIC_API_KEY"] = Some("") /\ env["OTEL_API_KEY"] = Some("OTEL_API_KEY")
    /\ last.cfg.api_key = ""
    /\ ~IsSet("OPTIC_ENDPOINT") /\ last.cfg.endpoint = "OTEL_EXPORTER_OTLP_ENDPOINT"
    /\ ~IsSet("OPTIC_ENVIRONMENT") /\ IsSet("OTEL_ENVIRONMENT")
    /\ last.cfg.environment = "local"

\* An explicit override of field f that is empty: a named parameter that is
\* None or "", a keyword argument that is None or "".
EmptyOverride(call, f) ==
    IF f \in {"api_key", "service_name", "endpoint"}
    THEN ~Truthy(call[f])
    ELSE /\ f \in DOMAIN call.kwargs
         /\ \/ call.kwargs[f] = None
            \/ f \in {"environment", "service_version", "log_level"}
               /\ call.kwargs[f] = Some("")

\* C11: an explicit override whose value is empty (None or the empty string),
\* given as a named parameter or as a keyword option, never replaces the
\* value the field gets from the environment or from the default.
C11_EmptyOverrideIgnored ==
    last.op = "resolve" =>
        \A f \in Fields :
            EmptyOverride(last.call, f) =>
                last.cfg[f] = IF FromEnvironment(f) # None THEN FromEnvironment(f)[1]
                              ELSE StatedDefaults[f]

(***************************************************************************)
(* Properties of discovery.                                                *)
(***************************************************************************)
\* The apply operation of the adapter of lib was invoked in the call.
Applied(log, lib) ==
    <<"apply", lib>> \in Events(log) \/ <<"apply_excluded", lib>> \in Events(log)

\* C12: the adapter of an entry is applied only if the target library
\* imports, the adapter imports and resolves, and the adapter does not report
\* itself instrumented; an entry with the library present and the adapter
\* absent is skipped, and when every entry is like that discovery applies
\* nothing and the call returns.
C12_AppliedOnlyWhenAvailable ==
    [][last'.op = "init" =>
        /\ \A lib \in Libraries :
              /\ Applied(last'.log, lib) =>
                    /\ last'.w.adapters[lib].lib
                    /\ last'.w.adapters[lib].adapter
                    /\ lib \notin instrumented
              /\ (last'.w.adapters[lib].lib /\ ~last'.w.adapters[lib].adapter) =>
                    /\ ~Applied(last'.log, lib)
                    /\ lib \in instrumented' <=> lib \in instrumented
        /\ (/\ <<"discovery", "run">> \in Events(last'.log)
            /\ \A lib \in Libraries :
                  last'.w.adapters[lib].lib /\ ~last'.w.adapters[lib].adapter) =>
              /\ last'.result = "returned"
              /\ instrumented' = instrumented
              /\ \A lib \in Libraries : ~Applied(last'.log, lib)]_vars

\* C12 happens: discovery ran over a registry whose libraries are all
\* installed without their adapters, every entry was skipped and the init
\* completed.
C12_Witness ==
    /\ last.op = "init"
    /\ last.w = NoAdapterInstalled
    /\ \A lib \in Libraries : <<"unavailable", lib>> \in Events(last.log)
    /\ last.result = "returned"
    /\ instrumented = {}
    /\ _initialized

\* C14: over init, shutdown and init again, the apply operation of an adapter
\* that reports itself instrumented is not invoked again: a discovery run
\* skips every adapter applied by an earlier run, and no run applies an
\* adapter twice.
C14_AppliedAtMostOnce ==
    [][last'.op = "init" =>
        \A lib \in Libraries :
            /\ lib \in instrumented => (~Applied(last'.log, lib) /\ lib \in instrumented')
            /\ Cardinality({i \in 1..Len(last'.log) :
                               last'.log[i] \in {<<"apply", lib>>, <<"apply_excluded", lib>>}}) <= 1]_vars

\* C14 happens: the second init cycle ran discovery in a runtime where the
\* adapter applied by the first cycle is applicable, and skipped it.
C14_Witness ==
    /\ last.op = "init"
    /\ Cardinality(succeeded) = 2
    /\ last.w.adapters["flask"] = Installed
    /\ <<"already", "flask">> \in Events(last.log)
    /\ ~Applied(last.log, "flask")
    /\ "flask" \in instrumented

\* C17: with a non-empty set of excluded URL patterns, an importable adapter
\* that is not yet applied gets the patterns only if it accepts them; one
\* that does not accept them is applied without them.
C17_ExcludedOnlyWhenAccepted ==
    (last.op = "init" /\ last.cfg.excluded_urls # <<>>
        /\ <<"discovery", "run">> \in Events(last.log)) =>
        \A lib \in Libraries :
            LET a == last.w.adapters[lib]
            IN  (/\ a.lib /\ a.adapter /\ a.has_instrument /\ ~a.raises
                 /\ <<"already", lib>> \notin Events(last.log)) =>
                    IF a.accepts_excluded
                    THEN <<"apply_excluded", lib>> \in Events(last.log)
                    ELSE /\ <<"apply", lib>> \in Events(last.log)
                         /\ <<"apply_excluded", lib>> \notin Events(last.log)
                         /\ lib \in instrumented

(***************************************************************************)
(* Properties of the sampler.                                              *)
(***************************************************************************)
\* C13: when psutil is not available, starting the sampler registers nothing
\* and raises nothing, and an init with system metrics and metrics enabled
\* completes with the state INITIALIZED.
C13_NoProbeNoSampler ==
    [][(/\ ~_initialized
        /\ last'.op = "init"
        /\ ~last'.w.psutil
        /\ last'.cfg.enable_system_metrics /\ last'.cfg.enable_metrics) =>
            /\ <<"sampler", "unavailable">> \in Events(last'.log)
            /\ gauges' = gauges
            /\ last'.result = "returned"
            /\ _initialized']_vars

\* C13 happens: an init with both flags enabled ran in a runtime without
\* psutil, after an earlier cycle had registered gauges, and completed.
C13_Witness ==
    /\ last.op = "init"
    /\ ~last.w.psutil
    /\ last.cfg.enable_system_metrics /\ last.cfg.enable_metrics
    /\ <<"sampler", "unavailable">> \in Events(last.log)
    /\ attempts = 2 /\ gauges = 6
    /\ _initialized

\* The positions of the log at which start_system_metrics is called.
SamplerStarts(log) == {i \in 1..Len(log) : log[i][1] = "sampler"}

\* C16: in an init that gets past the construction of the providers, the
\* sampler is started if and only if the system-metrics flag and the metrics
\* flag are both enabled, and it is started after the metrics provider was
\* registered, before discovery runs and before the state becomes
\* INITIALIZED.
C16_SamplerIffBothFlags ==
    (last.op = "init" /\ last.result = "returned" /\ last.log # <<>>) =>
        /\ SamplerStarts(last.log) # {}
              <=> (last.cfg.enable_system_metrics /\ last.cfg.enable_metrics)
        /\ Cardinality(SamplerStarts(last.log)) <= 1
        /\ \A i \in SamplerStarts(last.log) :
              /\ \E j \in 1..(i - 1) : last.log[j] = <<"register", "metrics">>
              /\ \A j \in 1..Len(last.log) :
                    last.log[j] \in {<<"discovery", "run">>, <<"flag", "True">>} => i < j

\* C16 happens: an init with both flags and discovery enabled started the
\* sampler between the registration of the metrics provider and discovery.
C16_Witness ==
    /\ last.op = "init"
    /\ last.result = "returned"
    /\ last.cfg.enable_system_metrics /\ last.cfg.enable_metrics
    /\ \E i, j, k \in 1..Len(last.log) :
          /\ i < j /\ j < k
          /\ last.log[i] = <<"register", "metrics">>
          /\ last.log[j] = <<"sampler", "started">>
          /\ last.log[k] = <<"discovery", "run">>
    /\ gauges = 6

\* C18: a sampler callback, in any cycle of any run, raises nothing, returns
\* no observation when its probe raises and exactly one, the percentage over
\* 100, when the probe succeeds, whatever happened in the cycles before; it
\* changes nothing in the process.
C18_CallbackNeverRaises ==
    [][last'.op = "callback" =>
        /\ last'.result = "returned"
        /\ last'.probe = None => last'.obs = <<>>
        /\ last'.probe # None =>
              (Len(last'.obs) = 1 /\ last'.obs[1] = <<last'.probe[1], 100>>)
        /\ UNCHANGED gvars]_vars

\* C18 happens: the CPU callback returned one observation in the cycle after
\* one in which its probe raised, and after a cycle of another callback.
C18_Witness ==
    /\ last.op = "callback"
    /\ last.log = << <<"memory", "raises">>, <<"cpu", "raises">>, <<"cpu", "ok">> >>
    /\ last.result = "returned"
    /\ Len(last.obs) = 1

(***************************************************************************)
(* Properties of failures and of the exit of the process.                  *)
(***************************************************************************)
\* The signals whose block of init comes before the block of sig.
Before(sig) == IF sig = "traces" THEN {}
               ELSE IF sig = "metrics" THEN {"traces"}
               ELSE {"traces", "metrics"}

Flag == [traces |-> "enable_traces", metrics |-> "enable_metrics", logs |-> "enable_logs"]

\* C15: when the construction of the provider of an enabled signal fails, the
\* init call raises; the flag stays false, the sampler is not started,
\* discovery is not run and no exit hook is registered; the providers of the
\* enabled signals before it, constructed and registered by this call, stay
\* in place.
C15_ConstructionFailurePropagates ==
    [][(/\ ~_initialized
        /\ last'.op = "init"
        /\ last'.w.fail # NoFail
        /\ last'.cfg[Flag[last'.w.fail[1]]]) =>
            /\ last'.result = "Exception"
            /\ ~_initialized'
            /\ hooks' = hooks /\ gauges' = gauges /\ instrumented' = instrumented
            /\ succeeded' = succeeded
            /\ \A e \in Events(last'.log) : e[1] \notin {"sampler", "discovery", "atexit", "flag"}
            /\ \A sig \in Before(last'.w.fail[1]) :
                  last'.cfg[Flag[sig]] =>
                      /\ Globals'[Handle[sig]] = attempts'
                      /\ <<sig, attempts'>> \in DOMAIN providers'
                      /\ <<"construct", sig>> \in Events(last'.log)]_vars

\* C15 happens: the second init failed in the construction of the logs
\* provider after it had replaced the tracer and meter providers of the first
\* cycle.
C15_Witness ==
    /\ last.op = "init"
    /\ last.result = "Exception"
    /\ last.w.fail = <<"logs", "construct">>
    /\ attempts = 2
    /\ _tracer_provider = 2 /\ _meter_provider = 2 /\ _logger_provider = 1
    /\ ~_initialized
    /\ hooks = 1

\* The provider of sig is reached by a shutdown call with this log: no
\* provider before it raised.
Reached(sig, log) == \A s \in Before(sig) : <<"raise", s>> \notin Events(log)

\* C19: a shutdown (explicit or run by an exit hook) in which a provider
\* raises ends with that exception and leaves the flag true, which
\* is_initialized() reports; and every shutdown call made while the flag is
\* true invokes shutdown() on each owned provider up to the one that raises,
\* so that the providers before a failing one are shut down again by the
\* next call.
C19_FailedShutdownStaysInitialized ==
    [][/\ (_initialized /\ last'.op \in {"shutdown", "exit_hook"}) =>
            /\ (\E sig \in {"traces", "metrics", "logs"} : <<"raise", sig>> \in Events(last'.log))
                  => (last'.result = "Exception" /\ _initialized')
            /\ \A sig \in {"traces", "metrics", "logs"} :
                  (Globals[Handle[sig]] # 0 /\ Reached(sig, last'.log)) =>
                      providers'[<<sig, Globals[Handle[sig]]>>]
                          = providers[<<sig, Globals[Handle[sig]]>>] + 1
       /\ (_initialized /\ last'.op = "is_initialized") => last'.result = "True"]_vars

\* C19 happens: a second shutdown call in a row failed in the meter provider,
\* after shutting down the tracer provider a second time.
C19_Witness ==
    /\ last.op \in {"shutdown", "exit_hook"}
    /\ last.result = "Exception"
    /\ <<"raise", "metrics">> \in Events(last.log)
    /\ _initialized
    /\ _tracer_provider # 0
    /\ providers[<<"traces", _tracer_provider>>] = 2
    /\ providers[<<"metrics", _meter_provider>>] = 2

\* C20: every init that initializes registers shutdown as an exit hook once
\* more, so the hooks registered are as many as the inits that succeeded; at
\* exit, with no provider raising, a hook that finds the flag true shuts the
\* owned providers down and clears it, every other hook does nothing, and
\* when all hooks have run the flag is false.
C20_OneHookPerInit ==
    [][/\ hooks' = Cardinality(succeeded')
       /\ (~_initialized /\ last'.op = "init" /\ last'.result = "returned")
            => hooks' = hooks + 1
       /\ last'.op = "exit_hook" =>
            IF _initialized
            THEN /\ ~_initialized'
                 /\ \A sig \in {"traces", "metrics", "logs"} :
                       Globals[Handle[sig]] # 0 => <<"shutdown", sig>> \in Events(last'.log)
            ELSE last'.log = <<>> /\ UNCHANGED gvars
       /\ (phase' = "exiting" /\ hooks_left' = 0) => ~_initialized']_vars

\* C20 happens: two inits succeeded, the process exited in state INITIALIZED,
\* the first hook shut the providers down and the second did nothing.
C20_Witness ==
    /\ phase = "exiting"
    /\ hooks = 2 /\ hooks_left = 0
    /\ Cardinality(succeeded) = 2
    /\ last.op = "exit_hook" /\ last.log = <<>>
    /\ ~_initialized
    /\ \E id \in DOMAIN providers : id[2] = 2 /\ providers[id] = 1

(***************************************************************************)
(* Properties of the root logger.                                          *)
(***************************************************************************)
\* The call recorded in r is an init that got to the logs block with logs
\* enabled: it passed validation and no earlier block raised.
ReachesLogs(r) ==
    /\ r.op = "init"
    /\ r.result # "ValueError"
    /\ r.cfg.enable_logs
    /\ \A sig \in Before("logs") : ~(r.w.fail[1] = sig /\ r.cfg[Flag[sig]])

\* The call recorded in r ran the logs block to its end.
CompletesLogs(r) == ReachesLogs(r) /\ r.w.fail[1] # "logs"

\* C21 as stated: every init that reaches the logs step with logs enabled
\* attaches one more handler to the root logger, and shutdown leaves the
\* handlers of the root logger as they are.
C21_HandlerPerLogsStep ==
    [][/\ (~_initialized /\ ReachesLogs(last')) => root_handlers' = root_handlers + 1
       /\ last'.op \in {"shutdown", "exit_hook"} => root_handlers' = root_handlers]_vars

\* C21 amended: every init that runs the logs step to its end attaches one
\* more handler; every other call (an init that returns early, fails
\* validation, has logs disabled or raises in or before the logs step, a
\* shutdown, an exit hook) leaves the handlers as they are, so the handlers
\* attached are as many as the inits that completed the logs step.
C21_HandlerPerCompletedLogsStep ==
    [][IF ~_initialized /\ CompletesLogs(last')
       THEN root_handlers' = root_handlers + 1
       ELSE root_handlers' = root_handlers]_vars

\* C21 happens: two inits completed the logs step, each followed by a
\* shutdown that shut the logger provider down, and two handlers are attached.
C21_Witness ==
    /\ last.op = "shutdown"
    /\ <<"shutdown", "logs">> \in Events(last.log)
    /\ ~_initialized
    /\ _logger_provider = 2
    /\ <<"logs", 1>> \in DOMAIN providers
    /\ providers[<<"logs", 1>>] > 0
    /\ root_handlers = 2

====
